---- MODULE Spec2Model ----
\* Model of github.com/Nidal-Bakir/go-semver (semver.go): Parse, SemVer.String,
\* the precedence comparison (Compare, the Is* predicates, comparePreRelease)
\* and Sort / SortStr.
\*
\* Representation.
\*  - A Go string is a sequence of one-character strings (all characters used
\*    here are ASCII, so byte length = rune count = Len).
\*  - A Go int is kept at its full 64-bit width.  TLC's own integers are
\*    32 bits wide, so an int value is the record [neg, mag]: a sign and the
\*    canonical decimal magnitude (a digit sequence without leading zeros).
\*    strconv.Atoi's range check and cmp.Compare on ints are computed on that
\*    representation exactly.
EXTENDS Integers, Sequences, FiniteSets, TLC

VARIABLES
    \* ---- Parse (semver.go:201-251) ----
    semverStr,                  \* the argument of Parse
    pos,                        \* number of characters the range loop has consumed
    parts,                      \* parts[0..4], the five strings.Builder
    partIndex,
    didEnterPreReleasePart,
    didEnterBuildMetadataPart,
    pc,                         \* position of the running operation
    semver,                     \* the SemVer value Parse returns
    err,                        \* TRUE iff Parse returned ErrInvalidSemVerSyntax
    rendered,                   \* result of semver.String() once called
    \* ---- comparison (semver.go:48-186) ----
    va, vb,                     \* receiver and argument of the comparison methods
    cmpOut,                     \* results of Compare and of the five predicates
    \* ---- sorting (semver.go:270-301) ----
    slice,                      \* the []SemVer handed to Sort
    strSlice,                   \* the []string handed to SortStr
    before,                     \* slice as it was before the latest Sort call
    strRet,                     \* what the latest SortStr call returned, if any
    sortCalls                   \* number of Sort calls made so far

vars == <<semverStr, pos, parts, partIndex, didEnterPreReleasePart,
          didEnterBuildMetadataPart, pc, semver, err, rendered,
          va, vb, cmpOut, slice, strSlice, before, strRet, sortCalls>>

parseVars == <<semverStr, pos, parts, partIndex, didEnterPreReleasePart,
               didEnterBuildMetadataPart, semver, err, rendered>>
cmpVars == <<va, vb, cmpOut>>
sortVars == <<slice, strSlice, before, strRet, sortCalls>>

-----------------------------------------------------------------------------
\* Characters and strings

DigitChars == {"0", "1", "2", "3", "4", "5", "6", "7", "8", "9"}

\* ASCII code of a character (only the characters the model uses).
Ord(c) ==
    CASE c = "+" -> 43 [] c = "-" -> 45 [] c = "." -> 46
      [] c = "0" -> 48 [] c = "1" -> 49 [] c = "2" -> 50 [] c = "3" -> 51
      [] c = "4" -> 52 [] c = "5" -> 53 [] c = "6" -> 54 [] c = "7" -> 55
      [] c = "8" -> 56 [] c = "9" -> 57
      [] c = "a" -> 97 [] c = "b" -> 98 [] c = "x" -> 120

Sign(n) == IF n < 0 THEN -1 ELSE IF n > 0 THEN 1 ELSE 0

\* cmp.Compare on two strings: byte-wise lexicographic order.
RECURSIVE CompareStr(_, _)
CompareStr(s, t) ==
    IF s = <<>> /\ t = <<>> THEN 0
    ELSE IF s = <<>> THEN -1
    ELSE IF t = <<>> THEN 1
    ELSE IF Head(s) # Head(t) THEN Sign(Ord(Head(s)) - Ord(Head(t)))
    ELSE CompareStr(Tail(s), Tail(t))

\* strings.Split(s, "."): the identifiers between the dots, empty ones kept.
RECURSIVE SplitFrom(_, _)
SplitFrom(s, cur) ==
    IF s = <<>> THEN <<cur>>
    ELSE IF Head(s) = "." THEN <<cur>> \o SplitFrom(Tail(s), <<>>)
    ELSE SplitFrom(Tail(s), Append(cur, Head(s)))

SplitDots(s) == SplitFrom(s, <<>>)

-----------------------------------------------------------------------------
\* Go int values (64 bit) and strconv.Atoi

\* math.MaxInt64 = 9223372036854775807 and -math.MinInt64 = 9223372036854775808
MaxIntMag == <<"9","2","2","3","3","7","2","0","3","6","8","5","4","7","7","5","8","0","7">>
MinIntMag == <<"9","2","2","3","3","7","2","0","3","6","8","5","4","7","7","5","8","0","8">>

IntZero == [neg |-> FALSE, mag |-> <<"0">>]

RECURSIVE StripZeros(_)
StripZeros(d) ==
    IF Len(d) > 1 /\ Head(d) = "0" THEN StripZeros(Tail(d)) ELSE d

\* Order of two canonical magnitudes.
CompareMag(m, n) ==
    IF Len(m) # Len(n) THEN Sign(Len(m) - Len(n)) ELSE CompareStr(m, n)

\* cmp.Compare on two ints.
CompareInt(x, y) ==
    IF x.neg # y.neg THEN (IF x.neg THEN -1 ELSE 1)
    ELSE IF x.neg THEN CompareMag(y.mag, x.mag)
    ELSE CompareMag(x.mag, y.mag)

\* cmp.Compare on two small non-negative lengths (len(string)).
CompareLen(m, n) == Sign(m - n)

AllDigits(s) == \A i \in 1..Len(s) : s[i] \in DigitChars

\* strconv.Atoi: an optional sign, then one or more decimal digits, and the
\* value has to fit an int; anything else is an error.
Atoi(s) ==
    LET signed == s # <<>> /\ Head(s) \in {"+", "-"}
        neg    == s # <<>> /\ Head(s) = "-"
        digs   == IF signed THEN Tail(s) ELSE s
        mag    == StripZeros(digs)
        inRng  == IF neg THEN CompareMag(mag, MinIntMag) <= 0
                  ELSE CompareMag(mag, MaxIntMag) <= 0
    IN  IF digs = <<>> \/ ~AllDigits(digs) \/ ~inRng
        THEN [ok |-> FALSE, val |-> IntZero]
        ELSE [ok |-> TRUE,
              val |-> [neg |-> neg /\ mag # <<"0">>, mag |-> mag]]

\* fmt.Sprint of an int.
FormatInt(x) == IF x.neg THEN <<"-">> \o x.mag ELSE x.mag

-----------------------------------------------------------------------------
\* SemVer and SemVer.String

ZeroSemVer ==
    [Major |-> IntZero, Minor |-> IntZero, Patch |-> IntZero,
     PreRelease |-> <<>>, BuildMetadata |-> <<>>]

\* String with the build metadata written after a '-' instead of a '+'.
String_HyphenBeforeBuild(s) ==
    FormatInt(s.Major) \o <<".">> \o FormatInt(s.Minor) \o <<".">>
        \o FormatInt(s.Patch)
        \o (IF Len(s.PreRelease) # 0 THEN <<"-">> \o s.PreRelease ELSE <<>>)
        \o (IF Len(s.BuildMetadata) # 0 THEN <<"-">> \o s.BuildMetadata ELSE <<>>)

String(s) ==
    FormatInt(s.Major) \o <<".">> \o FormatInt(s.Minor) \o <<".">>
        \o FormatInt(s.Patch)
        \o (IF Len(s.PreRelease) # 0 THEN <<"-">> \o s.PreRelease ELSE <<>>)
        \o (IF Len(s.BuildMetadata) # 0 THEN <<"+">> \o s.BuildMetadata ELSE <<>>)

-----------------------------------------------------------------------------
\* Parse: the scan loop and the conversion that follows it

EmptyParts == [i \in 0..4 |-> <<>>]

ScanInit ==
    [parts |-> EmptyParts, partIndex |-> 0,
     didEnterPreReleasePart |-> FALSE, didEnterBuildMetadataPart |-> FALSE]

\* The loop body with the '-' test of the earlier ParseSemVer, which did not
\* look at didEnterBuildMetadataPart.
ScanStep_HyphenIgnoresBuild(st, c) ==
    IF c = "." /\ st.partIndex < 2
    THEN [st EXCEPT !.partIndex = st.partIndex + 1]
    ELSE IF c = "-" /\ ~st.didEnterPreReleasePart
    THEN [st EXCEPT !.didEnterPreReleasePart = TRUE, !.partIndex = 3]
    ELSE IF c = "+" /\ ~st.didEnterBuildMetadataPart
    THEN [st EXCEPT !.didEnterBuildMetadataPart = TRUE, !.partIndex = 4]
    ELSE [st EXCEPT !.parts[st.partIndex] = Append(@, c)]

\* One iteration of the range loop on character c.
ScanStep(st, c) ==
    IF c = "." /\ st.partIndex < 2
    THEN [st EXCEPT !.partIndex = st.partIndex + 1]
    ELSE IF c = "-" /\ ~st.didEnterPreReleasePart /\ ~st.didEnterBuildMetadataPart
    THEN [st EXCEPT !.didEnterPreReleasePart = TRUE, !.partIndex = 3]
    ELSE IF c = "+" /\ ~st.didEnterBuildMetadataPart
    THEN [st EXCEPT !.didEnterBuildMetadataPart = TRUE, !.partIndex = 4]
    ELSE [st EXCEPT !.parts[st.partIndex] = Append(@, c)]

RECURSIVE ScanAll(_, _)
ScanAll(st, s) ==
    IF s = <<>> THEN st ELSE ScanAll(ScanStep(st, Head(s)), Tail(s))

\* Lines 227-250: the three Atoi calls, each returning the value built so far
\* together with the error when it fails.
Convert(p) ==
    LET major == Atoi(p[0])
        minor == Atoi(p[1])
        patch == Atoi(p[2])
        s1 == [ZeroSemVer EXCEPT !.Major = major.val]
        s2 == [s1 EXCEPT !.Minor = minor.val]
        s3 == [s2 EXCEPT !.Patch = patch.val]
    IN  IF ~major.ok THEN [semver |-> ZeroSemVer, err |-> TRUE]
        ELSE IF ~minor.ok THEN [semver |-> s1, err |-> TRUE]
        ELSE IF ~patch.ok THEN [semver |-> s2, err |-> TRUE]
        ELSE [semver |-> [s3 EXCEPT !.PreRelease = p[3], !.BuildMetadata = p[4]],
              err |-> FALSE]

\* Parse as a function of its argument.
Parse(s) == Convert(ScanAll(ScanInit, s).parts)

IsValid(s) == ~Parse(s).err

MustParse(s) == Parse(s).semver

-----------------------------------------------------------------------------
\* Precedence: comparePreRelease, generateCompareToOtherResult, Compare and
\* the boolean predicates

mayParseDigit(s) == Atoi(s)

Min(m, n) == IF m < n THEN m ELSE n

\* The loop of comparePreRelease from index i on (1-based here); ts and os are
\* the two split identifier lists, thisLen and otherLen the byte lengths of
\* the two PreRelease strings.
RECURSIVE ComparePartsFrom(_, _, _, _, _)
ComparePartsFrom(ts, os, i, thisLen, otherLen) ==
    IF i > Min(Len(ts), Len(os)) THEN CompareLen(thisLen, otherLen)
    ELSE LET thisPart  == ts[i]
             otherPart == os[i]
             t == mayParseDigit(thisPart)
             o == mayParseDigit(otherPart)
         IN  IF t.ok \/ o.ok
             THEN IF t.ok /\ o.ok
                  THEN IF t.val = o.val
                       THEN ComparePartsFrom(ts, os, i + 1, thisLen, otherLen)
                       ELSE CompareInt(t.val, o.val)
                  ELSE IF t.ok THEN -1 ELSE 1
             ELSE LET cmpResult == CompareStr(thisPart, otherPart)
                  IN  IF cmpResult = 0
                      THEN ComparePartsFrom(ts, os, i + 1, thisLen, otherLen)
                      ELSE cmpResult

comparePreRelease(s, o) ==
    LET thisLen  == Len(s.PreRelease)
        otherLen == Len(o.PreRelease)
    IN  IF thisLen = 0 \/ otherLen = 0
        THEN IF thisLen = 0 /\ otherLen = 0 THEN 0
             ELSE IF thisLen = 0 THEN 1 ELSE -1
        ELSE ComparePartsFrom(SplitDots(s.PreRelease), SplitDots(o.PreRelease),
                              1, thisLen, otherLen)

\* generateCompareToOtherResult with a fifth result for the build metadata.
generateCompareToOtherResult_WithBuild(s, o) ==
    <<CompareInt(s.Major, o.Major), CompareInt(s.Minor, o.Minor),
      CompareInt(s.Patch, o.Patch), comparePreRelease(s, o),
      CompareStr(s.BuildMetadata, o.BuildMetadata)>>

generateCompareToOtherResult(s, o) ==
    <<CompareInt(s.Major, o.Major), CompareInt(s.Minor, o.Minor),
      CompareInt(s.Patch, o.Patch), comparePreRelease(s, o)>>

\* The loop shared by Compare and the predicates: the first result that is
\* not 0, or 0 when there is none.
RECURSIVE FirstNonZero(_)
FirstNonZero(res) ==
    IF res = <<>> THEN 0
    ELSE IF Head(res) = 0 THEN FirstNonZero(Tail(res))
    ELSE Head(res)

IsGraterOrEquql(s, o) ==
    LET result == FirstNonZero(generateCompareToOtherResult(s, o))
    IN  IF result # 0 THEN result > 0 ELSE TRUE

IsGrater(s, o) ==
    LET result == FirstNonZero(generateCompareToOtherResult(s, o))
    IN  IF result # 0 THEN result > 0 ELSE FALSE

IsLess(s, o) ==
    LET result == FirstNonZero(generateCompareToOtherResult(s, o))
    IN  IF result # 0 THEN result < 0 ELSE FALSE

\* IsLessOrEquql ending like IsLess, with false for equal versions.
IsLessOrEquql_FalseOnEqual(s, o) ==
    LET result == FirstNonZero(generateCompareToOtherResult(s, o))
    IN  IF result # 0 THEN result < 0 ELSE FALSE

IsLessOrEquql(s, o) ==
    LET result == FirstNonZero(generateCompareToOtherResult(s, o))
    IN  IF result # 0 THEN result < 0 ELSE TRUE

IsEquql(s, o) ==
    /\ s.Major = o.Major /\ s.Minor = o.Minor /\ s.Patch = o.Patch
    /\ s.PreRelease = o.PreRelease

Compare(s, other) == FirstNonZero(generateCompareToOtherResult(s, other))

-----------------------------------------------------------------------------
\* Sort and SortStr.  sort.Sort runs pdqsort, which sorts a range of at most
\* 12 elements by insertion sort; the slices of the model are that short.

Swap(sv, i, j) == [sv EXCEPT ![i] = sv[j], ![j] = sv[i]]

Less(sv, i, j) == IsLessOrEquql(sv[i], sv[j])

\* Inner loop of the insertion sort: for j := i; j > a && Less(j, j-1); j--
RECURSIVE InsertDown(_, _)
InsertDown(sv, j) ==
    IF j > 1 /\ Less(sv, j, j - 1)
    THEN InsertDown(Swap(sv, j, j - 1), j - 1)
    ELSE sv

\* Outer loop: for i := a + 1; i < b; i++
RECURSIVE InsertionSortFrom(_, _)
InsertionSortFrom(sv, i) ==
    IF i > Len(sv) THEN sv ELSE InsertionSortFrom(InsertDown(sv, i), i + 1)

Sort(sv) == IF Len(sv) <= 1 THEN sv ELSE InsertionSortFrom(sv, 2)

SortStr(strs) ==
    IF \E i \in 1..Len(strs) : Parse(strs[i]).err
    THEN [slice |-> strs, err |-> TRUE]
    ELSE LET m == Sort([i \in 1..Len(strs) |-> Parse(strs[i]).semver])
         IN  [slice |-> [i \in 1..Len(strs) |-> String(m[i])], err |-> FALSE]

-----------------------------------------------------------------------------
\* Inputs

MaxLen == 6

BoundedSeqs(S, n) == UNION {[1..k -> S] : k \in 0..n}

ParseAlphabet == {"0", "1", "a", ".", "-", "+"}

\* Every string over ParseAlphabet of at most MaxLen characters.
ShortInputs == BoundedSeqs(ParseAlphabet, MaxLen)

\* Numeric texts around the limits of int: 1, a leading zero, MaxInt64,
\* MaxInt64 + 1 and a 20-character text of value 1.
NumTexts ==
    {<<"1">>, <<"0", "1">>, MaxIntMag, MinIntMag,
     <<"0","0","0","0","0","0","0","0","0","0",
       "0","0","0","0","0","0","0","0","0","1">>}

Tails ==
    {<<>>,
     <<"-", "a">>,
     <<"+", "b">>,
     <<"-", "a", "+", "b">>,
     <<"-", "a", ".", "1", "+", "b", ".", "0">>,
     <<"-", "a", "-", "b", "+", "a", "+", "b", "-", "a">>,
     <<".", "1">>,
     <<"-">>}

\* major.minor.patch followed by a tail, with numeric texts of any length.
LongInputs ==
    {ma \o <<".">> \o mi \o <<".">> \o pa \o tl :
        ma \in NumTexts, mi \in NumTexts, pa \in NumTexts, tl \in Tails}

ParseInputs == ShortInputs \cup LongInputs

NoResult == [Compare |-> 0, IsLess |-> FALSE, IsLessOrEquql |-> FALSE,
             IsGrater |-> FALSE, IsGraterOrEquql |-> FALSE, IsEquql |-> FALSE]

-----------------------------------------------------------------------------
\* Specification of Parse followed by String

CmpIdle == va = ZeroSemVer /\ vb = ZeroSemVer /\ cmpOut = NoResult
SortIdle ==
    /\ slice = <<>> /\ strSlice = <<>> /\ before = <<>>
    /\ strRet = "none" /\ sortCalls = 0

InitParse ==
    /\ semverStr \in ParseInputs
    /\ pos = 0
    /\ parts = ScanInit.parts
    /\ partIndex = ScanInit.partIndex
    /\ didEnterPreReleasePart = ScanInit.didEnterPreReleasePart
    /\ didEnterBuildMetadataPart = ScanInit.didEnterBuildMetadataPart
    /\ pc = "scan"
    /\ semver = ZeroSemVer
    /\ err = FALSE
    /\ rendered = <<>>
    /\ CmpIdle
    /\ SortIdle

ScanState ==
    [parts |-> parts, partIndex |-> partIndex,
     didEnterPreReleasePart |-> didEnterPreReleasePart,
     didEnterBuildMetadataPart |-> didEnterBuildMetadataPart]

\* The loop body on the next character of semverStr.
Consume ==
    LET st == ScanStep(ScanState, semverStr[pos + 1])
    IN  /\ pos' = pos + 1
        /\ parts' = st.parts
        /\ partIndex' = st.partIndex
        /\ didEnterPreReleasePart' = st.didEnterPreReleasePart
        /\ didEnterBuildMetadataPart' = st.didEnterBuildMetadataPart
        /\ UNCHANGED <<semverStr, pc, semver, err, rendered, cmpVars, sortVars>>

\* c == '.' && partIndex < 2
ScanDot ==
    /\ pc = "scan" /\ pos < Len(semverStr)
    /\ semverStr[pos + 1] = "." /\ partIndex < 2
    /\ Consume

\* c == '-' && !didEnterPreReleasePart && !didEnterBuildMetadataPart
ScanHyphen ==
    /\ pc = "scan" /\ pos < Len(semverStr)
    /\ ~(semverStr[pos + 1] = "." /\ partIndex < 2)
    /\ semverStr[pos + 1] = "-"
    /\ ~didEnterPreReleasePart /\ ~didEnterBuildMetadataPart
    /\ Consume

\* c == '+' && !didEnterBuildMetadataPart
ScanPlus ==
    /\ pc = "scan" /\ pos < Len(semverStr)
    /\ semverStr[pos + 1] = "+" /\ ~didEnterBuildMetadataPart
    /\ Consume

\* parts[partIndex].WriteRune(c)
ScanWrite ==
    /\ pc = "scan" /\ pos < Len(semverStr)
    /\ ~(semverStr[pos + 1] = "." /\ partIndex < 2)
    /\ ~(semverStr[pos + 1] = "-" /\ ~didEnterPreReleasePart
            /\ ~didEnterBuildMetadataPart)
    /\ ~(semverStr[pos + 1] = "+" /\ ~didEnterBuildMetadataPart)
    /\ Consume

\* The loop is over: lines 227-250.
ParseReturn ==
    /\ pc = "scan" /\ pos = Len(semverStr)
    /\ LET r == Convert(parts)
       IN  semver' = r.semver /\ err' = r.err
    /\ pc' = "returned"
    /\ UNCHANGED <<semverStr, pos, parts, partIndex, didEnterPreReleasePart,
                   didEnterBuildMetadataPart, rendered, cmpVars, sortVars>>

\* The caller renders the version it got (as the tests do after a nil error).
CallString ==
    /\ pc = "returned" /\ ~err
    /\ rendered' = String(semver)
    /\ pc' = "rendered"
    /\ UNCHANGED <<semverStr, pos, parts, partIndex, didEnterPreReleasePart,
                   didEnterBuildMetadataPart, semver, err, cmpVars, sortVars>>

NextParse ==
    \/ ScanDot \/ ScanHyphen \/ ScanPlus \/ ScanWrite
    \/ ParseReturn \/ CallString

SpecParse == InitParse /\ [][NextParse]_vars

-----------------------------------------------------------------------------
\* Specification of the comparison methods on two parsed versions

MaxPreLen == 2

PreAlphabet == {"0", "a", "."}

\* Pre-release texts beyond MaxPreLen: leading zeros, identifiers that begin
\* with a hyphen, several identifiers, and digit strings around and beyond
\* the limits of int.
LongPreReleases ==
    {<<"-", "1">>, <<"-", "2">>, <<"-", "0">>, <<"-", "a">>,
     <<"0", "0", "1">>, <<"0", "0", "0", "1">>,
     <<"1", ".", "a">>, <<"1", ".", "b">>, <<"1", ".", "a", ".", "0">>,
     <<"0", "1", ".", "1">>, <<"1", ".", "0", "1">>,
     <<"a", ".", "1", "1">>, <<"a", ".", "2">>, <<"a", ".", "b">>,
     MaxIntMag, MinIntMag,
     <<"9","9","9","9","9","9","9","9","9","9",
       "9","9","9","9","9","9","9","9","9","9">>,
     <<"1","0","0","0","0","0","0","0","0","0","0",
       "0","0","0","0","0","0","0","0","0","0">>}

PreReleaseTexts == BoundedSeqs(PreAlphabet, MaxPreLen) \cup LongPreReleases

Cores ==
    {<<"0", ".", "0", ".", "0">>, <<"0", ".", "0", ".", "1">>,
     <<"0", ".", "1", ".", "0">>, <<"1", ".", "0", ".", "0">>}

BuildSuffixes == {<<>>, <<"+", "x">>}

CmpInputs ==
    {c \o p \o b :
        c \in Cores,
        p \in {<<>>} \cup {<<"-">> \o t : t \in PreReleaseTexts},
        b \in BuildSuffixes}

\* The versions Parse returns for the inputs above.
Versions == {Parse(s).semver : s \in {x \in CmpInputs : IsValid(x)}}

InitCmp ==
    /\ va \in Versions
    /\ vb \in Versions
    /\ cmpOut = NoResult
    /\ pc = "compare"
    /\ semverStr = <<>> /\ pos = 0 /\ parts = EmptyParts /\ partIndex = 0
    /\ didEnterPreReleasePart = FALSE /\ didEnterBuildMetadataPart = FALSE
    /\ semver = ZeroSemVer /\ err = FALSE /\ rendered = <<>>
    /\ SortIdle

\* va.Compare(vb) and the five predicates, as the tests call them together.
CompareBoth ==
    /\ pc = "compare"
    /\ cmpOut' = [Compare         |-> Compare(va, vb),
                  IsLess          |-> IsLess(va, vb),
                  IsLessOrEquql   |-> IsLessOrEquql(va, vb),
                  IsGrater        |-> IsGrater(va, vb),
                  IsGraterOrEquql |-> IsGraterOrEquql(va, vb),
                  IsEquql         |-> IsEquql(va, vb)]
    /\ pc' = "compared"
    /\ UNCHANGED <<va, vb, parseVars, sortVars>>

NextCmp == CompareBoth

SpecCmp == InitCmp /\ [][NextCmp]_vars

-----------------------------------------------------------------------------
\* Specification of Sort and SortStr

MaxSlice == 3
MaxSortCalls == 2

SortInputs ==
    {<<"0", ".", "0", ".", "0", "-", "0", "0", "0", "1">>,
     <<"0", ".", "0", ".", "0", "-", "1", ".", "b">>,
     <<"0", ".", "0", ".", "0", "-", "1", ".", "a", ".", "0">>,
     <<"1", ".", "0", ".", "0", "-", "a">>,
     <<"1", ".", "0", ".", "0", "+", "a">>,
     <<"1", ".", "0", ".", "0", "+", "b">>,
     <<"1", ".", "0", ".", "0">>,
     <<"2", ".", "0", ".", "0">>,
     <<"1", ".", "0">>}

\* The []SemVer a caller builds from the strings that parse.
ParsedSlice(strs) ==
    LET ok == SelectSeq(strs, IsValid)
    IN  [i \in 1..Len(ok) |-> MustParse(ok[i])]

InitSort ==
    /\ strSlice \in BoundedSeqs(SortInputs, MaxSlice)
    /\ slice = ParsedSlice(strSlice)
    /\ before = <<>>
    /\ strRet = "none"
    /\ sortCalls = 0
    /\ pc = "sort"
    /\ semverStr = <<>> /\ pos = 0 /\ parts = EmptyParts /\ partIndex = 0
    /\ didEnterPreReleasePart = FALSE /\ didEnterBuildMetadataPart = FALSE
    /\ semver = ZeroSemVer /\ err = FALSE /\ rendered = <<>>
    /\ CmpIdle

CallSort ==
    /\ pc = "sort" /\ sortCalls < MaxSortCalls
    /\ before' = slice
    /\ slice' = Sort(slice)
    /\ sortCalls' = sortCalls + 1
    /\ UNCHANGED <<strSlice, strRet, pc, parseVars, cmpVars>>

CallSortStr ==
    /\ pc = "sort" /\ strRet = "none"
    /\ LET r == SortStr(strSlice)
       IN  /\ strSlice' = r.slice
           /\ strRet' = IF r.err THEN "error" ELSE "nil"
    /\ UNCHANGED <<slice, before, sortCalls, pc, parseVars, cmpVars>>

NextSort == CallSort \/ CallSortStr

SpecSort == InitSort /\ [][NextSort]_vars

-----------------------------------------------------------------------------
\* The whole program: any one of the three uses above.

Init == InitParse \/ InitCmp \/ InitSort

Next == NextParse \/ NextCmp \/ NextSort

Spec == Init /\ [][Next]_vars

-----------------------------------------------------------------------------
\* Properties of Parse and String (checked under SpecParse)

\* The decimal value of a non-empty digit text, as an int of any magnitude.
DecimalValue(t) == [neg |-> FALSE, mag |-> StripZeros(t)]

BadNumericText(t) == t = <<>> \/ ~AllDigits(t)

\* C1: Parse fails exactly when the text accumulated for major, minor or patch
\* is empty or holds a character that is no decimal digit; otherwise it
\* succeeds and Major, Minor, Patch are the decimal values of the three texts,
\* whatever their magnitude.
C1_FailsExactlyOnBadNumericText ==
    pc = "returned" =>
        /\ err <=> \E k \in 0..2 : BadNumericText(parts[k])
        /\ (\A k \in 0..2 : ~BadNumericText(parts[k])) =>
               /\ ~err
               /\ semver.Major = DecimalValue(parts[0])
               /\ semver.Minor = DecimalValue(parts[1])
               /\ semver.Patch = DecimalValue(parts[2])

\* Grammar of the round-trip claim, read off the input text alone: three
\* dot-separated non-empty digit strings, then optionally one '-' and
\* dot-separated identifiers, then optionally one '+' and dot-separated
\* identifiers.
RECURSIVE Count(_, _)
Count(s, c) ==
    IF s = <<>> THEN 0
    ELSE (IF Head(s) = c THEN 1 ELSE 0) + Count(Tail(s), c)

\* Index of the first c in s, or Len(s) + 1 when there is none.
RECURSIVE IndexFrom(_, _, _)
IndexFrom(s, c, i) ==
    IF i > Len(s) \/ s[i] = c THEN i ELSE IndexFrom(s, c, i + 1)

IndexOf(s, c) == IndexFrom(s, c, 1)

NumericHead(s) == SubSeq(s, 1, Min(IndexOf(s, "-"), IndexOf(s, "+")) - 1)

PreReleaseText(s) == SubSeq(s, IndexOf(s, "-") + 1, IndexOf(s, "+") - 1)

BuildText(s) == SubSeq(s, IndexOf(s, "+") + 1, Len(s))

IdentifierList(t) == \A i \in 1..Len(SplitDots(t)) : SplitDots(t)[i] # <<>>

WellFormed(s) ==
    /\ Count(s, "-") <= 1
    /\ Count(s, "+") <= 1
    /\ (Count(s, "-") = 1 /\ Count(s, "+") = 1) => IndexOf(s, "-") < IndexOf(s, "+")
    /\ Len(SplitDots(NumericHead(s))) = 3
    /\ \A i \in 1..3 : LET t == SplitDots(NumericHead(s))[i]
                       IN  t # <<>> /\ AllDigits(t)
    /\ Count(s, "-") = 1 => IdentifierList(PreReleaseText(s))
    /\ Count(s, "+") = 1 => IdentifierList(BuildText(s))

NoLeadingZero(t) == Len(t) = 1 \/ Head(t) # "0"

\* Well formed, and major, minor and patch are written without leading zeros.
WellFormedCanonical(s) ==
    /\ WellFormed(s)
    /\ \A i \in 1..3 : NoLeadingZero(SplitDots(NumericHead(s))[i])

ExceedsInt(t) == CompareMag(StripZeros(t), MaxIntMag) > 0

C10_NoPartialResult ==
    (pc = "returned" /\ err) => semver = ZeroSemVer

\* The part of semverStr the loop has consumed so far.
Consumed == SubSeq(semverStr, 1, pos)

\* A '-' occurs in s before any '+'.
HyphenBeforePlus(s) == IndexOf(s, "-") < IndexOf(s, "+")

HasPlus(s) == IndexOf(s, "+") <= Len(s)

\* Where the cursor has to be after s, read off the text alone.
CursorAfter(s) ==
    IF HasPlus(s) THEN 4
    ELSE IF HyphenBeforePlus(s) THEN 3
    ELSE Min(Count(s, "."), 2)

\* What the scan has accumulated, at every point of it: the build metadata is
\* the text after the first '+', the pre-release the text between the first
\* '-' that precedes any '+' and the first '+'; and a Parse that succeeds
\* returns these two texts.
C11_ScanTexts ==
    /\ pc \in {"scan", "returned", "rendered"} =>
           /\ partIndex = CursorAfter(Consumed)
           /\ didEnterPreReleasePart = HyphenBeforePlus(Consumed)
           /\ didEnterBuildMetadataPart = HasPlus(Consumed)
           /\ parts[4] = BuildText(Consumed)
           /\ parts[3] = (IF HyphenBeforePlus(Consumed)
                          THEN PreReleaseText(Consumed) ELSE <<>>)
           /\ Len(parts[0]) + Len(parts[1]) + Len(parts[2])
                  + Min(Count(NumericHead(Consumed), "."), 2)
                = Len(NumericHead(Consumed))
    /\ (pc \in {"returned", "rendered"} /\ ~err) =>
           /\ semver.BuildMetadata = BuildText(semverStr)
           /\ semver.PreRelease = (IF HyphenBeforePlus(semverStr)
                                   THEN PreReleaseText(semverStr) ELSE <<>>)

\* One step of the scan: the cursor never moves back, a flag once set stays
\* set, the cursor moves only on a '.' read in major or minor (one field on),
\* on a '-' read before either switch (to pre-release) or on a '+' read before
\* the build switch (to build metadata), and once a switch has happened major,
\* minor and patch receive nothing.
C11_ScanStepForward ==
    /\ partIndex' >= partIndex
    /\ didEnterPreReleasePart => didEnterPreReleasePart'
    /\ didEnterBuildMetadataPart => didEnterBuildMetadataPart'
    /\ partIndex' # partIndex =>
           LET c == semverStr[pos + 1]
           IN  \/ c = "." /\ partIndex < 2 /\ partIndex' = partIndex + 1
               \/ /\ c = "-" /\ partIndex' = 3
                  /\ ~didEnterPreReleasePart /\ ~didEnterBuildMetadataPart
               \/ c = "+" /\ partIndex' = 4 /\ ~didEnterBuildMetadataPart
    /\ (didEnterPreReleasePart \/ didEnterBuildMetadataPart) =>
           \A k \in 0..2 : parts'[k] = parts[k]

\* C11: during the scan the field cursor only moves forward and every switch
\* is one-shot; after the scan BuildMetadata is the text following the first
\* '+', PreRelease the text between the first '-' that precedes any '+' and
\* the first '+' (or the end), later '-', '+' and '.' are kept as content,
\* and nothing read after a switch reaches major, minor or patch.
C11_CursorForwardAndTexts ==
    []C11_ScanTexts /\ [][C11_ScanStepForward]_vars

C11_Witness ==
    /\ pc = "returned" /\ ~err
    /\ Count(semverStr, "-") > 1 /\ Count(semverStr, "+") > 1
    /\ Count(semver.PreRelease, "-") > 0
    /\ Count(semver.BuildMetadata, "+") > 0
    /\ Count(semver.BuildMetadata, "-") > 0

-----------------------------------------------------------------------------
\* Properties of the comparison (checked under SpecCmp)

SameCore(a, b) ==
    a.Major = b.Major /\ a.Minor = b.Minor /\ a.Patch = b.Patch

\* C2: Compare is transitive over the versions Parse returns, for <= and
\* for equality.
C2_CompareTransitive ==
    pc = "compared" =>
        \A c \in Versions :
            /\ (cmpOut.Compare <= 0 /\ Compare(vb, c) <= 0) => Compare(va, c) <= 0
            /\ (cmpOut.Compare = 0 /\ Compare(vb, c) = 0) => Compare(va, c) = 0

\* The identifier rules as documented above comparePreRelease: an identifier
\* of only digits is numeric and is compared by value; identifiers with
\* letters or hyphens are compared in ASCII order; a numeric identifier is
\* lower than a non-numeric one.
NumericIdentifier(x) == x # <<>> /\ AllDigits(x)

DocCompareIdentifier(x, y) ==
    IF NumericIdentifier(x) /\ NumericIdentifier(y)
    THEN CompareMag(StripZeros(x), StripZeros(y))
    ELSE IF NumericIdentifier(x) THEN -1
    ELSE IF NumericIdentifier(y) THEN 1
    ELSE CompareStr(x, y)

\* The identifiers of a and b agree at every position of the shorter list.
AgreeOnShorter(a, b) ==
    LET ta == SplitDots(a.PreRelease)
        tb == SplitDots(b.PreRelease)
    IN  \A i \in 1..Min(Len(ta), Len(tb)) : DocCompareIdentifier(ta[i], tb[i]) = 0

\* C3: with equal major, minor, patch and two non-empty pre-releases whose
\* identifiers agree at every position of the shorter list, the version with
\* more identifiers is the greater one.
C3_MoreIdentifiersGreater ==
    (/\ pc = "compared"
     /\ SameCore(va, vb)
     /\ va.PreRelease # <<>> /\ vb.PreRelease # <<>>
     /\ AgreeOnShorter(va, vb)) =>
        LET na == Len(SplitDots(va.PreRelease))
            nb == Len(SplitDots(vb.PreRelease))
        IN  /\ na > nb => cmpOut.Compare = 1
            /\ na < nb => cmpOut.Compare = -1

\* C4: at the first position where the identifiers of two pre-releases
\* differ, Compare gives the documented order of those two identifiers.
C4_IdentifierOrderAsDocumented ==
    (/\ pc = "compared"
     /\ SameCore(va, vb)
     /\ va.PreRelease # <<>> /\ vb.PreRelease # <<>>) =>
        LET ta == SplitDots(va.PreRelease)
            tb == SplitDots(vb.PreRelease)
        IN  \A k \in 1..Min(Len(ta), Len(tb)) :
                (/\ DocCompareIdentifier(ta[k], tb[k]) # 0
                 /\ \A i \in 1..(k - 1) : DocCompareIdentifier(ta[i], tb[i]) = 0) =>
                    cmpOut.Compare = DocCompareIdentifier(ta[k], tb[k])

\* The build metadata texts of the versions of the model.
BuildTexts == {v.BuildMetadata : v \in Versions}

Predicates(a, b) ==
    <<IsEquql(a, b), IsLess(a, b), IsLessOrEquql(a, b), IsGrater(a, b),
      IsGraterOrEquql(a, b)>>

\* C5: build metadata never influences precedence: replacing the build
\* metadata of a version changes no result of Compare or of the five
\* predicates, on either side, and the two versions compare equal.
C5_BuildMetadataIgnored ==
    pc = "compared" =>
        \A bm \in BuildTexts \ {va.BuildMetadata} :
            LET a2 == [va EXCEPT !.BuildMetadata = bm]
            IN  /\ a2 \in Versions
                /\ Compare(a2, vb) = cmpOut.Compare
                /\ Compare(vb, a2) = Compare(vb, va)
                /\ Predicates(a2, vb) =
                       <<cmpOut.IsEquql, cmpOut.IsLess, cmpOut.IsLessOrEquql,
                         cmpOut.IsGrater, cmpOut.IsGraterOrEquql>>
                /\ Predicates(vb, a2) = Predicates(vb, va)
                /\ Compare(va, a2) = 0
                /\ IsEquql(va, a2)

C5_Witness ==
    /\ pc = "compared"
    /\ va.BuildMetadata # <<>> /\ vb.BuildMetadata = <<>>
    /\ SameCore(va, vb) /\ va.PreRelease = vb.PreRelease
    /\ va.PreRelease # <<>>
    /\ cmpOut.Compare = 0 /\ cmpOut.IsEquql

\* C8 as stated: each of the five predicates is the matching test on Compare.
C8_PredicatesMatchCompare ==
    pc = "compared" =>
        /\ cmpOut.IsLess <=> cmpOut.Compare < 0
        /\ cmpOut.IsLessOrEquql <=> cmpOut.Compare <= 0
        /\ cmpOut.IsGrater <=> cmpOut.Compare > 0
        /\ cmpOut.IsGraterOrEquql <=> cmpOut.Compare >= 0
        /\ cmpOut.IsEquql <=> cmpOut.Compare = 0

\* C8 amended: the four ordering predicates are the matching tests on
\* Compare, and IsEquql implies that Compare is 0 (IsEquql also needs the two
\* pre-release texts to be the same text, so the converse does not hold).
C8_OrderingPredicatesMatchCompare ==
    pc = "compared" =>
        /\ cmpOut.IsLess <=> cmpOut.Compare < 0
        /\ cmpOut.IsLessOrEquql <=> cmpOut.Compare <= 0
        /\ cmpOut.IsGrater <=> cmpOut.Compare > 0
        /\ cmpOut.IsGraterOrEquql <=> cmpOut.Compare >= 0
        /\ cmpOut.IsEquql => cmpOut.Compare = 0

C8_Witness ==
    /\ pc = "compared"
    /\ cmpOut.Compare = 0 /\ cmpOut.IsLessOrEquql /\ cmpOut.IsGraterOrEquql
    /\ ~cmpOut.IsLess /\ ~cmpOut.IsGrater
    /\ ~cmpOut.IsEquql

-----------------------------------------------------------------------------
\* Properties of Sort and SortStr (checked under SpecSort)

Ascending(sv) ==
    \A i \in 1..Len(sv) : \A j \in (i + 1)..Len(sv) : Compare(sv[i], sv[j]) <= 0

Occurrences(sv, v) == Cardinality({i \in 1..Len(sv) : sv[i] = v})

Permutation(sv, tv) ==
    /\ Len(sv) = Len(tv)
    /\ \A i \in 1..Len(sv) : Occurrences(sv, sv[i]) = Occurrences(tv, sv[i])

\* C7: after Sort the slice is a permutation of what it held, in ascending
\* precedence, and after a SortStr that returns nil the strings are the
\* renderings of such an ascending sequence.
C7_SortedAscending ==
    /\ sortCalls >= 1 => (Permutation(slice, before) /\ Ascending(slice))
    /\ strRet = "nil" =>
           /\ Ascending([i \in 1..Len(strSlice) |-> Parse(strSlice[i]).semver])
           /\ \A i \in 1..Len(strSlice) :
                  ~Parse(strSlice[i]).err
                  /\ String(Parse(strSlice[i]).semver) = strSlice[i]

\* C9: Sort applied to the output of Sort leaves every element where it is.
C9_SortIdempotent ==
    sortCalls >= 2 => slice = before

====
